---- MODULE Spec2Model ----
(***************************************************************************)
(* Model of deredden.py: the CCM 1989 / O'Donnell 1994 extinction law.     *)
(*                                                                         *)
(* Real numbers are fixed-point integers in units of 10^-6 (1.1 is         *)
(* 1100000), every product and quotient rounded to the nearest unit, as a  *)
(* bounded stand-in for IEEE doubles.  The non-finite doubles numpy        *)
(* produces (inf from 1/0 and b/0, nan from a negative base under a        *)
(* fractional power and from 0*inf) are kept as separate kinds of value.   *)
(***************************************************************************)
EXTENDS Integers, Sequences, FiniteSets

Scale == 10^6

----------------------------------------------------------------------------
(* Fixed-point arithmetic on finite values (plain integers, micro units).  *)

Abs(x) == IF x < 0 THEN -x ELSE x

Sgn(x) == IF x < 0 THEN -1 ELSE IF x > 0 THEN 1 ELSE 0

\* x*y/10^6 for x, y >= 0, rounded to nearest, without leaving 32 bits
MulAbs(x, y) ==
    LET xh == x \div 1000
        xl == x % 1000
        yh == y \div 1000
        yl == y % 1000
    IN  xh * yh + ((xh * yl + xl * yh + ((xl * yl + 500000) \div 1000)) \div 1000)

Mul(x, y) == Sgn(x) * Sgn(y) * MulAbs(Abs(x), Abs(y))

\* long division: the quotient r/y carried to n more decimal digits
RECURSIVE DivDigits(_, _, _, _)
DivDigits(q, r, y, n) ==
    IF n = 0
    THEN IF 2 * r >= y THEN q + 1 ELSE q
    ELSE DivDigits(10 * q + ((10 * r) \div y), (10 * r) % y, y, n - 1)

\* x*10^6/y for x >= 0, y > 0, rounded to nearest
DivAbs(x, y) == DivDigits(x \div y, x % y, y, 6)

\* y # 0
Div(x, y) == Sgn(x) * Sgn(y) * DivAbs(Abs(x), Abs(y))

\* y**n for a small natural n, by repeated multiplication
RECURSIVE PowInt(_, _)
PowInt(y, n) == IF n = 0 THEN Scale ELSE Mul(y, PowInt(y, n - 1))

\* natural logarithm of x > 0: x = m * 2^e with 0.75 <= m < 1.5, then
\* ln m = 2 atanh((m-1)/(m+1)) by its series
RECURSIVE LnReduce(_, _)
LnReduce(x, e) ==
    IF x >= 1500000 THEN LnReduce(x \div 2, e + 1)
    ELSE IF x < 750000 THEN LnReduce(2 * x, e - 1)
    ELSE LET z  == Div(x - Scale, x + Scale)
             z2 == Mul(z, z)
             z3 == Mul(z, z2)
             z5 == Mul(z3, z2)
             z7 == Mul(z5, z2)
             z9 == Mul(z7, z2)
         IN  e * 693147 + 2 * (z + z3 \div 3 + z5 \div 5 + z7 \div 7 + z9 \div 9)

Ln(x) == LnReduce(x, 0)

\* exp(r) for |r| <= ln 2, by its Taylor series (Horner form)
RECURSIVE ExpSeries(_, _)
ExpSeries(r, n) ==
    IF n > 12 THEN Scale ELSE Scale + Mul(r, ExpSeries(r, n + 1)) \div n

\* 2^e * m, rounded
RECURSIVE Ldexp(_, _)
Ldexp(m, e) ==
    IF e = 0 THEN m
    ELSE IF e > 0 THEN Ldexp(2 * m, e - 1)
    ELSE Ldexp((m + 1) \div 2, e + 1)

\* exponential: x = e * ln 2 + r with 0 <= r < ln 2
Exp(x) == Ldexp(ExpSeries(x % 693147, 1), x \div 693147)

\* x**p for finite x >= 0 (numpy: 0**p = 0 for p > 0)
PowReal(x, p) == IF x = 0 THEN 0 ELSE Exp(Mul(p, Ln(x)))

----------------------------------------------------------------------------
(* Array elements: finite numbers, +/-inf and nan.                         *)

Num(n) == [kind |-> "num", v |-> n]

Inf(s) == [kind |-> "inf", v |-> s]

NaN == [kind |-> "nan", v |-> 0]

\* sign of a finite or infinite element
FSgn(x) == IF x.kind = "inf" THEN x.v ELSE Sgn(x.v)

\* comparisons of an element with a finite literal; nan compares false
FLe(x, c) == (x.kind = "num" /\ x.v <= c) \/ (x.kind = "inf" /\ x.v < 0)

FGt(x, c) == (x.kind = "num" /\ x.v > c) \/ (x.kind = "inf" /\ x.v > 0)

FGe(x, c) == (x.kind = "num" /\ x.v >= c) \/ (x.kind = "inf" /\ x.v > 0)

FAdd(x, y) ==
    IF x.kind = "nan" \/ y.kind = "nan" THEN NaN
    ELSE IF x.kind = "inf" /\ y.kind = "inf"
         THEN IF x.v = y.v THEN x ELSE NaN
    ELSE IF x.kind = "inf" THEN x
    ELSE IF y.kind = "inf" THEN y
    ELSE Num(x.v + y.v)

FMul(x, y) ==
    IF x.kind = "nan" \/ y.kind = "nan" THEN NaN
    ELSE IF x.kind = "inf" \/ y.kind = "inf"
         THEN IF FSgn(x) * FSgn(y) = 0 THEN NaN ELSE Inf(FSgn(x) * FSgn(y))
    ELSE Num(Mul(x.v, y.v))

\* numpy true division: x/0 is +/-inf, 0/0 is nan (a warning, no exception)
FDiv(x, y) ==
    IF x.kind = "nan" \/ y.kind = "nan" THEN NaN
    ELSE IF y.kind = "inf"
         THEN IF x.kind = "inf" THEN NaN ELSE Num(0)
    ELSE IF y.v = 0
         THEN IF FSgn(x) = 0 THEN NaN ELSE Inf(FSgn(x))
    ELSE IF x.kind = "inf" THEN Inf(x.v * Sgn(y.v))
    ELSE Num(Div(x.v, y.v))

\* x**p for a positive, non-integer literal p
FPow(x, p) ==
    IF x.kind = "nan" THEN NaN
    ELSE IF x.kind = "inf" THEN Inf(1)
    ELSE IF x.v < 0 THEN NaN
    ELSE Num(PowReal(x.v, p))

\* 10**x
FPow10(x) ==
    IF x.kind = "nan" THEN NaN
    ELSE IF x.kind = "inf" THEN (IF x.v > 0 THEN Inf(1) ELSE Num(0))
    ELSE Num(Exp(Mul(x.v, 2302585)))

----------------------------------------------------------------------------
(* numpy boolean-mask indexing.                                            *)

\* indices where the mask is true, ascending
RECURSIVE NonzeroUpTo(_, _)
NonzeroUpTo(mask, n) ==
    IF n = 0 THEN <<>>
    ELSE IF mask[n] THEN Append(NonzeroUpTo(mask, n - 1), n)
    ELSE NonzeroUpTo(mask, n - 1)

Nonzero(mask) == NonzeroUpTo(mask, Len(mask))

\* v[mask]
Take(v, mask) == LET idx == Nonzero(mask) IN [j \in 1..Len(idx) |-> v[idx[j]]]

\* v[mask] = vals
Put(v, mask, vals) ==
    [i \in DOMAIN v |->
        IF mask[i] THEN vals[Cardinality({j \in 1..i : mask[j]})] ELSE v[i]]

\* np.ones(n)
zeros_as_ones(n) == [i \in 1..n |-> Num(Scale)]

\* np.zeros(n)
zeros(n) == [i \in 1..n |-> Num(0)]

----------------------------------------------------------------------------
(* The four band functions.                                                *)

\* wave < 1.1
mask_ir_lt(wave) == [i \in DOMAIN wave |-> ~FGe(wave[i], 1100000) /\ wave[i].kind # "nan"]

\* wave <= 1.1
mask_ir(wave) == [i \in DOMAIN wave |-> FLe(wave[i], 1100000)]

\* (wave > 1.1) & (wave <= 3.3)
mask_nir(wave) == [i \in DOMAIN wave |-> FGt(wave[i], 1100000) /\ FLe(wave[i], 3300000)]

\* (wave >= 3.3) & (wave <= 8.0)
mask_uv(wave) == [i \in DOMAIN wave |-> FGe(wave[i], 3300000) /\ FLe(wave[i], 8000000)]

\* (wave >= 8.0) & (wave <= 10)
mask_fuv_ge(wave) == [i \in DOMAIN wave |-> FGe(wave[i], 8000000) /\ FLe(wave[i], 10000000)]

\* (wave > 8.0) & (wave <= 10)
mask_fuv(wave) == [i \in DOMAIN wave |-> FGt(wave[i], 8000000) /\ FLe(wave[i], 10000000)]

law_ir(a, b, wave) ==
    LET m == mask_ir(wave)
        w == Take(wave, m)
    IN  [a |-> Put(a, m, [j \in DOMAIN w |-> FMul(Num(574000), FPow(w[j], 1610000))]),
         b |-> Put(b, m, [j \in DOMAIN w |-> FMul(Num(-527000), FPow(w[j], 1610000))])]

\* O'Donnell coefficients, y finite
nir_a(y) ==
    Scale + Mul(104000, y) - Mul(609000, PowInt(y, 2)) + Mul(701000, PowInt(y, 3))
    + Mul(1137000, PowInt(y, 4)) - Mul(1718000, PowInt(y, 5)) - Mul(827000, PowInt(y, 6))
    + Mul(1647000, PowInt(y, 7)) - Mul(505000, PowInt(y, 8))

nir_b(y) ==
    0 + Mul(1952000, y) + Mul(2908000, PowInt(y, 2)) - Mul(3989000, PowInt(y, 3))
    - Mul(7985000, PowInt(y, 4)) + Mul(11102000, PowInt(y, 5)) + Mul(5491000, PowInt(y, 6))
    - Mul(10805000, PowInt(y, 7)) + Mul(3347000, PowInt(y, 8))

law_nir(a, b, wave) ==
    LET cond == mask_nir(wave)
        w == Take(wave, cond)
        y == [j \in DOMAIN w |-> w[j].v - 1820000]
    IN  [a |-> Put(a, cond, [j \in DOMAIN y |-> Num(nir_a(y[j]))]),
         b |-> Put(b, cond, [j \in DOMAIN y |-> Num(nir_b(y[j]))])]

law_uv(a, b, wave) ==
    LET cond == mask_uv(wave)
        wave_cond == Take(wave, cond)
        y == [j \in DOMAIN wave_cond |-> wave_cond[j].v]
        some == \E j \in DOMAIN y : y[j] >= 5900000
        f_a == [j \in DOMAIN y |->
                  IF some /\ y[j] >= 5900000
                  THEN - Mul(44730, PowInt(y[j] - 5900000, 2))
                       - Mul(9779, PowInt(y[j] - 5900000, 3))
                  ELSE 0]
        f_b == [j \in DOMAIN y |->
                  IF some /\ y[j] >= 5900000
                  THEN - Mul(213000, PowInt(y[j] - 5900000, 2))
                       - Mul(120700, PowInt(y[j] - 5900000, 3))
                  ELSE 0]
    IN  [a |-> Put(a, cond, [j \in DOMAIN y |->
                  Num(1752000 - Mul(316000, y[j])
                      - Div(104000, PowInt(y[j] - 4670000, 2) + 341000) + f_a[j])]),
         b |-> Put(b, cond, [j \in DOMAIN y |->
                  Num(-3090000 + Mul(1825000, y[j])
                      + Div(1206000, PowInt(y[j] - 4620000, 2) + 263000) + f_b[j])])]

\* law_fuv selecting wave >= 8.0 instead of wave > 8.0
law_fuv_ge(a, b, wave) ==
    LET m == [i \in DOMAIN wave |-> FGe(wave[i], 8000000) /\ FLe(wave[i], 10000000)]
        w == Take(wave, m)
        y == [j \in DOMAIN w |-> w[j].v - 8000000]
    IN  [a |-> Put(a, m, [j \in DOMAIN y |->
                  Num(-1073000 - Mul(628000, y[j]) + Mul(137000, PowInt(y[j], 2))
                      - Mul(70000, PowInt(y[j], 3)))]),
         b |-> Put(b, m, [j \in DOMAIN y |->
                  Num(13670000 + Mul(4257000, y[j]) - Mul(420000, PowInt(y[j], 2))
                      + Mul(334000, PowInt(y[j], 3)))])]

law_fuv(a, b, wave) ==
    LET m == mask_fuv(wave)
        w == Take(wave, m)
        y == [j \in DOMAIN w |-> w[j].v - 8000000]
    IN  [a |-> Put(a, m, [j \in DOMAIN y |->
                  Num(-1073000 - Mul(628000, y[j]) + Mul(137000, PowInt(y[j], 2))
                      - Mul(70000, PowInt(y[j], 3)))]),
         b |-> Put(b, m, [j \in DOMAIN y |->
                  Num(13670000 + Mul(4257000, y[j]) - Mul(420000, PowInt(y[j], 2))
                      + Mul(334000, PowInt(y[j], 3)))])]

\* the list dered loops over
laws == <<"law_uv", "law_fuv", "law_nir", "law_ir">>

\* law(a, b, wave) for a function named in laws
Apply(law, a, b, wave) ==
    CASE law = "law_uv" -> law_uv(a, b, wave)
      [] law = "law_fuv" -> law_fuv(a, b, wave)
      [] law = "law_nir" -> law_nir(a, b, wave)
      [] law = "law_ir" -> law_ir(a, b, wave)

\* the index expression the named function assigns through
MaskOf(law, wave) ==
    CASE law = "law_uv" -> mask_uv(wave)
      [] law = "law_fuv" -> mask_fuv(wave)
      [] law = "law_nir" -> mask_nir(wave)
      [] law = "law_ir" -> mask_ir(wave)

----------------------------------------------------------------------------
(* State.                                                                  *)

VARIABLES
    wave,      \* the array bound to the name wave: wavelengths, then wavenumbers
    flux,      \* the flux argument
    e_bv,      \* the colour excess argument
    R_v,       \* the R_v argument
    a, b,      \* the coefficient vectors
    pc,        \* position in dered, or "laws" when the band functions are called directly
    applied,   \* the band functions called so far, in call order
    outcome,   \* "running", "returned" or the exception dered ended with
    out,       \* the returned array
    wave0,     \* history: the wave argument as passed
    a0, b0,    \* history: a and b before the first band function was called
    writers    \* history: per position, the band functions whose mask selected it

vars == <<wave, flux, e_bv, R_v, a, b, pc, applied, outcome, out, wave0, a0, b0, writers>>

\* longest vector explored
MaxLen == 2

SeqsUpTo(S, n) == UNION {[1..m -> S] : m \in 0..n}

\* wavelengths in microns: zero, negative, below 0.1, the reciprocals of the
\* wavenumbers 10, 8, 5, 1.818182, 1.1 and 0.1
Wavelengths ==
    {0, -1000000, 50000, 100000, 125000, 200000, 550000, 909091, 10000000}

Fluxes == {1000000, 2500000}

EBVs == {0, 100000}

RVs == {0, 3089000}

\* wavenumbers handed to the band functions directly: every band boundary,
\* interior points, points outside all bands
Wavenumbers ==
    {Num(-1000000), Num(100000), Num(1100000), Num(1820000), Num(3300000),
     Num(5900000), Num(8000000), Num(10000000), Num(20000000), Inf(1)}

\* initial contents of a and b when the band functions are called directly
Fills == {<<0, 0>>, <<7000000, -7000000>>}

Range(s) == {s[i] : i \in DOMAIN s}

----------------------------------------------------------------------------
(* dered                                                                   *)

Init ==
    /\ wave0 \in SeqsUpTo(Wavelengths, MaxLen)
    /\ wave = [i \in DOMAIN wave0 |-> Num(wave0[i])]
    /\ flux \in SeqsUpTo(Fluxes, MaxLen)
    /\ e_bv \in EBVs
    /\ R_v \in RVs
    /\ a = <<>> /\ b = <<>> /\ a0 = <<>> /\ b0 = <<>>
    /\ pc = "reciprocal"
    /\ applied = <<>>
    /\ writers = <<>>
    /\ outcome = "running"
    /\ out = <<>>

\* wave = 1 / wave
Reciprocal ==
    /\ pc = "reciprocal"
    /\ wave' = [i \in DOMAIN wave |-> FDiv(Num(Scale), wave[i])]
    /\ pc' = "zeros"
    /\ UNCHANGED <<flux, e_bv, R_v, a, b, applied, outcome, out, wave0, a0, b0, writers>>

\* a, b = np.zeros(len(wave)), np.zeros(len(wave))
Zeros ==
    /\ pc = "zeros"
    /\ a' = zeros(Len(wave))
    /\ b' = zeros(Len(wave))
    /\ a0' = a' /\ b0' = b'
    /\ writers' = [i \in DOMAIN wave |-> {}]
    /\ pc' = "loop"
    /\ UNCHANGED <<wave, flux, e_bv, R_v, applied, outcome, out, wave0>>

\* a, b = law(a, b, wave): inside dered the next function of laws, called
\* directly any function not called yet
Call(law) ==
    /\ \/ pc = "loop" /\ Len(applied) < Len(laws) /\ laws[Len(applied) + 1] = law
       \/ pc = "laws" /\ law \notin Range(applied)
    /\ LET r == Apply(law, a, b, wave)
       IN  a' = r.a /\ b' = r.b
    /\ applied' = Append(applied, law)
    /\ writers' = [i \in DOMAIN writers |->
                     IF MaskOf(law, wave)[i] THEN writers[i] \cup {law} ELSE writers[i]]
    /\ UNCHANGED <<wave, flux, e_bv, R_v, pc, outcome, out, wave0, a0, b0>>

LawUv == Call("law_uv")

LawFuv == Call("law_fuv")

LawNir == Call("law_nir")

LawIr == Call("law_ir")

\* 10**(0.4 + ( (e_bv * R_v) * (a + b/R_v) ) ), a sum where the product belongs
Factor_sum(av, bv, ebv, rv) ==
    [i \in DOMAIN av |->
        FPow10(FAdd(Num(400000),
                    FMul(Num(Mul(ebv, rv)), FAdd(av[i], FDiv(bv[i], Num(rv))))))]

\* 10**(0.4 * ( (e_bv * R_v) * (a + b/R_v) ) )
Factor(av, bv, ebv, rv) ==
    [i \in DOMAIN av |->
        FPow10(FMul(Num(400000),
                    FMul(Num(Mul(ebv, rv)), FAdd(av[i], FDiv(bv[i], Num(rv))))))]

\* numpy broadcasting of two one-dimensional shapes
CanBroadcast(n, m) == n = m \/ n = 1 \/ m = 1

BroadcastLen(n, m) == IF n = 1 THEN m ELSE n

\* flux * factor
Times(fl, t) ==
    [i \in 1..BroadcastLen(Len(fl), Len(t)) |->
        FMul(Num(fl[IF Len(fl) = 1 THEN 1 ELSE i]), t[IF Len(t) = 1 THEN 1 ELSE i])]

\* return flux * 10**(...)
Return ==
    /\ pc = "loop"
    /\ Len(applied) = Len(laws)
    /\ IF CanBroadcast(Len(flux), Len(a))
       THEN outcome' = "returned" /\ out' = Times(flux, Factor(a, b, e_bv, R_v))
       ELSE outcome' = "ValueError" /\ out' = <<>>
    /\ pc' = "done"
    /\ UNCHANGED <<wave, flux, e_bv, R_v, a, b, applied, wave0, a0, b0, writers>>

Next == Reciprocal \/ Zeros \/ LawUv \/ LawFuv \/ LawNir \/ LawIr \/ Return

Spec == Init /\ [][Next]_vars

----------------------------------------------------------------------------
(* The band functions called directly, in any order, on any a and b.       *)

InitLaws ==
    /\ wave \in SeqsUpTo(Wavenumbers, MaxLen)
    /\ \E f \in Fills :
          /\ a = [i \in DOMAIN wave |-> Num(f[1])]
          /\ b = [i \in DOMAIN wave |-> Num(f[2])]
    /\ a0 = a /\ b0 = b
    /\ wave0 = <<>>
    /\ flux = <<>>
    /\ e_bv = 0
    /\ R_v = 0
    /\ pc = "laws"
    /\ applied = <<>>
    /\ writers = [i \in DOMAIN wave |-> {}]
    /\ outcome = "running"
    /\ out = <<>>

NextLaws == LawUv \/ LawFuv \/ LawNir \/ LawIr

SpecLaws == InitLaws /\ [][NextLaws]_vars

----------------------------------------------------------------------------
(* Properties.                                                             *)

\* for law in order: a, b = law(a, b, wave)
RECURSIVE Loop(_, _, _, _)
Loop(order, av, bv, w) ==
    IF order = <<>> THEN [a |-> av, b |-> bv]
    ELSE LET r == Apply(Head(order), av, bv, w)
         IN  Loop(Tail(order), r.a, r.b, w)

AllCalled == Len(applied) = Len(laws)

\* the index of flux and of wave that numpy broadcasting pairs with out[j]
FluxIdx(j) == IF Len(flux) = 1 THEN 1 ELSE j

WaveIdx(j) == IF Len(wave) = 1 THEN 1 ELSE j

\* C1: the four band conditions are pairwise disjoint: no position is
\* selected by the mask of more than one band function.
C1_BandsDisjoint == \A i \in DOMAIN writers : Cardinality(writers[i]) <= 1

\* C2: once all four band functions have been called, in whatever order,
\* a and b are what dered's own order produces from the same initial a, b
\* and wave.
C2_OrderImmaterial ==
    AllCalled =>
        /\ a = Loop(laws, a0, b0, wave).a
        /\ b = Loop(laws, a0, b0, wave).b

\* C3: a call of a band function leaves a and b as they were at every
\* position its own band condition does not select (and keeps their length).
C3_Frame ==
    [][\A law \in Range(laws) :
          applied' = Append(applied, law) =>
              /\ DOMAIN a' = DOMAIN a /\ DOMAIN b' = DOMAIN b
              /\ \A i \in DOMAIN a :
                    ~MaskOf(law, wave)[i] => a'[i] = a[i] /\ b'[i] = b[i]]_vars

\* C3 witness: one function has been called on non-zero a and b, it rewrote
\* a position inside its band and left a position outside it alone.
C3_Witness ==
    /\ pc = "laws" /\ Len(applied) = 1
    /\ \E i, j \in DOMAIN wave :
          /\ MaskOf(applied[1], wave)[i] /\ a[i] # a0[i] /\ b[i] # b0[i]
          /\ ~MaskOf(applied[1], wave)[j]
          /\ a[j] = Num(7000000) /\ b[j] = Num(-7000000)

\* C4: dered never returns an array when an entry of the wave argument is
\* zero.
C4_ZeroWaveRaises ==
    (pc = "done" /\ \E i \in DOMAIN wave0 : wave0[i] = 0) =>
        outcome # "returned" /\ out = <<>>

\* C5: when wave and flux differ in length dered ends in a length-mismatch
\* failure and produces no output.
C5_LengthMismatchRaises ==
    (pc = "done" /\ Len(wave0) # Len(flux)) =>
        outcome = "ValueError" /\ out = <<>>

\* C6: a returned array is as long as the flux argument.
C6_OutputLength == outcome = "returned" => Len(out) = Len(flux)

\* C7 as stated: with e_bv = 0 every returned element equals the flux
\* element at its position, for any wave, flux and R_v.
C7_ZeroReddening ==
    (outcome = "returned" /\ e_bv = 0) =>
        \A j \in DOMAIN out \cap DOMAIN flux : out[j] = Num(flux[j])

\* C7 amended: with e_bv = 0, R_v non-zero and no negative wavelength,
\* every returned element equals the flux element it was computed from.
C7_ZeroReddeningAmended ==
    (outcome = "returned" /\ e_bv = 0 /\ R_v # 0
        /\ \A i \in DOMAIN wave0 : wave0[i] >= 0) =>
        \A j \in DOMAIN out : out[j] = Num(flux[FluxIdx(j)])

\* C7 witness: a zero-reddening call returned, with a position whose
\* coefficients were written by a band function.
C7_Witness ==
    /\ outcome = "returned" /\ e_bv = 0 /\ R_v # 0
    /\ \A i \in DOMAIN wave0 : wave0[i] >= 0
    /\ \E j \in DOMAIN out :
          /\ a[WaveIdx(j)] # Num(0) /\ b[WaveIdx(j)] # Num(0)
          /\ out[j] = Num(flux[FluxIdx(j)])

\* C8 as stated: after the loop a position at wavenumber 8.0 holds the
\* far-UV values a = -1.073, b = 13.670.
C8_FarUvAtEight ==
    (pc \in {"loop", "done"} /\ AllCalled) =>
        \A i \in DOMAIN wave :
            wave[i] = Num(8000000) =>
                a[i] = Num(-1073000) /\ b[i] = Num(13670000)

\* C8 amended: after the loop a position at wavenumber 8.0 was selected
\* by law_uv alone and holds law_uv's values there, a = -1.072922 and
\* b = 9.556055 (to within 5e-6).
C8_UvAtEight ==
    (pc \in {"loop", "done"} /\ AllCalled) =>
        \A i \in DOMAIN wave :
            wave[i] = Num(8000000) =>
                /\ writers[i] = {"law_uv"}
                /\ a[i].kind = "num" /\ Abs(a[i].v + 1072922) <= 5
                /\ b[i].kind = "num" /\ Abs(b[i].v - 9556055) <= 5

\* C8 witness: dered finished its loop over a wave holding wavenumber 8.0.
C8_Witness ==
    /\ pc = "done" /\ AllCalled
    /\ \E i \in DOMAIN wave : wave[i] = Num(8000000)

\* C9: once all four band functions have been called, every position with
\* 0.1 <= wavenumber <= 10 was selected by at least one of them and no
\* longer holds its initial a and b.
C9_BandsCover ==
    AllCalled =>
        \A i \in DOMAIN wave :
            (FGe(wave[i], 100000) /\ FLe(wave[i], 10000000)) =>
                /\ \E law \in Range(laws) : MaskOf(law, wave)[i]
                /\ writers[i] # {}
                /\ ~(a[i] = a0[i] /\ b[i] = b0[i])

\* C9 witness: all four functions were called on a wave holding both ends
\* of the operating range.
C9_Witness ==
    /\ pc = "laws" /\ AllCalled
    /\ \E i, j \in DOMAIN wave :
          wave[i] = Num(100000) /\ wave[j] = Num(10000000)

\* C10: a position whose wavenumber is above 10 holds a = b = 0 after the
\* loop; with R_v non-zero and shapes numpy accepts, dered returns and the
\* element computed from that position is the flux element unchanged.
C10_OutOfBand ==
    /\ (pc \in {"loop", "done"} /\ AllCalled) =>
          \A i \in DOMAIN wave :
              FGt(wave[i], 10000000) =>
                  a[i] = Num(0) /\ b[i] = Num(0) /\ writers[i] = {}
    /\ (pc = "done" /\ R_v # 0 /\ CanBroadcast(Len(flux), Len(wave))) =>
          /\ outcome = "returned"
          /\ \A j \in DOMAIN out :
                FGt(wave[WaveIdx(j)], 10000000) => out[j] = Num(flux[FluxIdx(j)])

\* C10 witness: a call with non-zero reddening returned; the element at a
\* wavelength below 0.1 micron is unchanged while an in-band one is not.
C10_Witness ==
    /\ pc = "done" /\ outcome = "returned" /\ e_bv # 0 /\ R_v # 0
    /\ \E i, j \in DOMAIN out :
          /\ Len(wave) = Len(out) /\ Len(flux) = Len(out)
          /\ wave[i] = Num(20000000) /\ out[i] = Num(flux[i])
          /\ FLe(wave[j], 10000000) /\ out[j] # Num(flux[j])

====
